---- MODULE Spec2Model ----
(***************************************************************************)
(* Model of the design-pattern examples: the Strategy file (Context, Item, *)
(* the two array strategies), the Command file (Invoker, OrderManager and  *)
(* its commands) and the Abstract Factory file (two factories, four        *)
(* products, clientCode).                                                  *)
(*                                                                         *)
(* Every object is a record with a cls field.  A console line is the       *)
(* sequence of the parts of the template literal that produced it.  An     *)
(* array is a sequence of one-character strings held in a heap, so that    *)
(* in-place mutation and aliasing of references are visible.               *)
(***************************************************************************)
EXTENDS Integers, Sequences, FiniteSets, TLC

VARIABLES example, status, console, issued, calls, ret,
          context, item, invoker, manager, products,
          heap, data, result, before, applied

vars == <<example, status, console, issued, calls, ret,
          context, item, invoker, manager, products,
          heap, data, result, before, applied>>

progVars == <<example, status, console, issued, calls, ret,
              context, item, invoker, manager, products>>

heapVars == <<heap, data, result, before, applied>>

\* ---------------------------------------------------------------- bounds
MaxOps == 5
MaxLen == 3
MaxCalls == 2

\* ------------------------------------------------------- values and inputs
Undefined == [cls |-> "undefined"]
NoObject == [cls |-> "none"]

Examples == {"strategy.abstract", "strategy.concrete", "command.abstract",
             "command.concrete", "abstractFactory.abstract"}

Literal == <<"a", "b", "c", "d", "e">>

Alphabet == {"a", "b", "c", "d", "e"}

CodeUnit == [c \in Alphabet |->
               CASE c = "a" -> 97 [] c = "b" -> 98 [] c = "c" -> 99
                 [] c = "d" -> 100 [] c = "e" -> 101]

Inputs == UNION {[1..n -> Alphabet] : n \in 0..MaxLen} \cup {Literal}

Strategies == {[cls |-> "ConcreteStrategyA"], [cls |-> "ConcreteStrategyB"]}

PaymentStrategies == {[cls |-> "CreditCardStrategy"], [cls |-> "PayPalStrategy"]}

Prices == {100, 200}

Ids == {"1234", "5678"}

Dishes == {"Pad Thai"}

InvokerCommands == {[cls |-> "SimpleCommand", payload |-> "Say Hi!"],
                    [cls |-> "ComplexCommand", a |-> "Send email", b |-> "Save report"]}

OrderCommands == {[cls |-> "PlaceOrderCommand", order |-> o, id |-> i] : o \in Dishes, i \in Ids}
                 \cup {[cls |-> "CancelOrderCommand", id |-> i] : i \in Ids}
                 \cup {[cls |-> "TrackOrderCommand", id |-> i] : i \in Ids}

Last(s) == s[Len(s)]

\* ------------------------------------------------- Array.prototype methods
\* Array.prototype.sort with the default comparator: ascending by UTF-16
\* code unit, stable.  Computed as a stable insertion sort.
\* InsertSorted with the comparison turned round.
RECURSIVE InsertSorted_desc(_, _)
InsertSorted_desc(s, x) ==
    IF s = <<>> THEN <<x>>
    ELSE IF CodeUnit[x] > CodeUnit[Last(s)]
         THEN Append(InsertSorted_desc(SubSeq(s, 1, Len(s) - 1), x), Last(s))
         ELSE Append(s, x)

RECURSIVE InsertSorted(_, _)
InsertSorted(s, x) ==
    IF s = <<>> THEN <<x>>
    ELSE IF CodeUnit[x] < CodeUnit[Last(s)]
         THEN Append(InsertSorted(SubSeq(s, 1, Len(s) - 1), x), Last(s))
         ELSE Append(s, x)

RECURSIVE ArraySort(_)
ArraySort(s) ==
    IF s = <<>> THEN <<>>
    ELSE InsertSorted(ArraySort(SubSeq(s, 1, Len(s) - 1)), Last(s))

\* Array.prototype.reverse
ArrayReverse(s) == [i \in 1..Len(s) |-> s[Len(s) + 1 - i]]

\* Array.prototype.join(sep): the parts of the joined string.
RECURSIVE ArrayJoin(_, _)
ArrayJoin(s, sep) ==
    IF s = <<>> THEN <<>>
    ELSE IF Len(s) = 1 THEN <<s[1]>>
    ELSE <<s[1], sep>> \o ArrayJoin(Tail(s), sep)

\* ------------------------------------------------------ Strategy (abstract)
\* doAlgorithm takes the heap and the reference of the array it is given and
\* yields the heap after the call and the reference it returns.  sort() and
\* reverse() work in place and return the array they were called on.
\* doAlgorithm sorting a copy of the array, as [...data].sort() would.
ConcreteStrategyA_doAlgorithm_copy(h, r) ==
    [heap |-> Append(h, ArraySort(h[r])), ret |-> Len(h) + 1]

ConcreteStrategyA_doAlgorithm(h, r) ==
    [heap |-> [h EXCEPT ![r] = ArraySort(h[r])], ret |-> r]

ConcreteStrategyB_doAlgorithm(h, r) ==
    [heap |-> [h EXCEPT ![r] = ArrayReverse(h[r])], ret |-> r]

\* dynamic dispatch of Strategy.doAlgorithm
doAlgorithm(s, h, r) ==
    IF s.cls = "ConcreteStrategyA" THEN ConcreteStrategyA_doAlgorithm(h, r)
    ELSE ConcreteStrategyB_doAlgorithm(h, r)

\* ------------------------------------------------------------ typed values
ArrayValue(items) == [cls |-> "Array", items |-> items]

NumberValue(n) == [cls |-> "number", value |-> n]

\* An operation may run while its example is the running one, nothing has
\* thrown, and the bound on the number of operations is not reached.
Running(ex) == example = ex /\ status = "running" /\ Len(issued) < MaxOps

Issue(op, arg) == issued' = Append(issued, [op |-> op, arg |-> arg])

\* ------------------------------------------------------------------ Context
NewContext(s) ==
    /\ Running("strategy.abstract")
    /\ context = NoObject
    /\ context' = [cls |-> "Context", strategy |-> s]
    /\ Issue("new Context", s)
    /\ ret' = Undefined
    /\ UNCHANGED <<example, status, console, calls, item, invoker, manager, products>>
    /\ UNCHANGED heapVars

\* setStrategy that loses the assignment.
Context_setStrategy_noAssign(s) ==
    /\ Running("strategy.abstract")
    /\ context # NoObject
    /\ context' = context
    /\ Issue("setStrategy", s)
    /\ ret' = Undefined
    /\ UNCHANGED <<example, status, console, calls, item, invoker, manager, products>>
    /\ UNCHANGED heapVars

Context_setStrategy(s) ==
    /\ Running("strategy.abstract")
    /\ context # NoObject
    /\ context' = [context EXCEPT !.strategy = s]
    /\ Issue("setStrategy", s)
    /\ ret' = Undefined
    /\ UNCHANGED <<example, status, console, calls, item, invoker, manager, products>>
    /\ UNCHANGED heapVars

\* doSomeBusinessLogic that looks at the variant: the reverse strategy is
\* handed the tail of the data only.
Context_doSomeBusinessLogic_branching ==
    /\ Running("strategy.abstract")
    /\ context # NoObject
    /\ LET arg == IF context.strategy.cls = "ConcreteStrategyB" THEN Tail(Literal) ELSE Literal
           h0 == <<arg>>
           r == doAlgorithm(context.strategy, h0, 1)
           res == r.heap[r.ret]
       IN /\ console' = console \o
                <<<<"Context: Sorting data using the strategy (not sure how it'll do it)">>,
                  ArrayJoin(res, ",")>>
          /\ calls' = Append(calls, [target |-> context.strategy,
                                     method |-> "doAlgorithm",
                                     args |-> <<ArrayValue(arg)>>,
                                     ret |-> ArrayValue(res)])
    /\ Issue("doSomeBusinessLogic", Undefined)
    /\ ret' = Undefined
    /\ UNCHANGED <<example, status, context, item, invoker, manager, products>>
    /\ UNCHANGED heapVars

\* The array literal is allocated afresh by every call; the strategy gets the
\* reference to it, and the line printed is the join of the array returned.
Context_doSomeBusinessLogic ==
    /\ Running("strategy.abstract")
    /\ context # NoObject
    /\ LET h0 == <<Literal>>
           r == doAlgorithm(context.strategy, h0, 1)
           res == r.heap[r.ret]
       IN /\ console' = console \o
                <<<<"Context: Sorting data using the strategy (not sure how it'll do it)">>,
                  ArrayJoin(res, ",")>>
          /\ calls' = Append(calls, [target |-> context.strategy,
                                     method |-> "doAlgorithm",
                                     args |-> <<ArrayValue(Literal)>>,
                                     ret |-> ArrayValue(res)])
    /\ Issue("doSomeBusinessLogic", Undefined)
    /\ ret' = Undefined
    /\ UNCHANGED <<example, status, context, item, invoker, manager, products>>
    /\ UNCHANGED heapVars

\* ------------------------------------------------------- Strategy (concrete)
CreditCardStrategy_pay(amount) == <<"Paid ", ToString(amount), " using credit card.">>

PayPalStrategy_pay(amount) == <<"Paid ", ToString(amount), " using PayPal.">>

\* dynamic dispatch of PaymentStrategy.pay: the line it prints
pay(ps, amount) ==
    IF ps.cls = "CreditCardStrategy" THEN CreditCardStrategy_pay(amount)
    ELSE PayPalStrategy_pay(amount)

NewItem(price, ps) ==
    /\ Running("strategy.concrete")
    /\ item' = [cls |-> "Item", price |-> price, paymentStrategy |-> ps]
    /\ Issue("new Item", ps)
    /\ ret' = Undefined
    /\ UNCHANGED <<example, status, console, calls, context, invoker, manager, products>>
    /\ UNCHANGED heapVars

Item_buy ==
    /\ Running("strategy.concrete")
    /\ item # NoObject
    /\ console' = Append(console, pay(item.paymentStrategy, item.price))
    /\ calls' = Append(calls, [target |-> item.paymentStrategy,
                               method |-> "pay",
                               args |-> <<NumberValue(item.price)>>,
                               ret |-> Undefined])
    /\ Issue("buy", Undefined)
    /\ ret' = Undefined
    /\ UNCHANGED <<example, status, context, item, invoker, manager, products>>
    /\ UNCHANGED heapVars

\* -------------------------------------------------------- Command (abstract)
\* The lines a command prints when executed.
SimpleCommand_execute(c) ==
    << <<"SimpleCommand: See, I can do simple things like printing (", c.payload, ")">> >>

Receiver_doSomething(a) == <<"Receiver: Working on (", a, ".)">>

Receiver_doSomethingElse(b) == <<"Receiver: Also working on (", b, ".)">>

ComplexCommand_execute(c) ==
    << <<"ComplexCommand: Complex stuff should be done by a receiver object.">>,
       Receiver_doSomething(c.a),
       Receiver_doSomethingElse(c.b) >>

\* dynamic dispatch of Command.execute
Command_execute(c) ==
    IF c.cls = "SimpleCommand" THEN SimpleCommand_execute(c)
    ELSE ComplexCommand_execute(c)

\* isCommand with optional chaining (object?.execute): undefined is no command.
Invoker_isCommand_optionalChaining(object) ==
    [threw |-> FALSE, value |-> object.cls \in {"SimpleCommand", "ComplexCommand"}]

\* isCommand reads object.execute: reading a property of undefined throws a
\* TypeError; on an object the test is whether it has an execute member.
Invoker_isCommand(object) ==
    IF object = Undefined THEN [threw |-> TRUE, value |-> FALSE]
    ELSE [threw |-> FALSE, value |-> object.cls \in {"SimpleCommand", "ComplexCommand"}]

CallRecord(c) == [target |-> c, method |-> "execute", args |-> <<>>, ret |-> Undefined]

NewInvoker ==
    /\ Running("command.abstract")
    /\ invoker = NoObject
    /\ invoker' = [cls |-> "Invoker", onStart |-> Undefined, onFinish |-> Undefined]
    /\ Issue("new Invoker", Undefined)
    /\ ret' = Undefined
    /\ UNCHANGED <<example, status, console, calls, context, item, manager, products>>
    /\ UNCHANGED heapVars

Invoker_setOnStart(command) ==
    /\ Running("command.abstract")
    /\ invoker # NoObject
    /\ invoker' = [invoker EXCEPT !.onStart = command]
    /\ Issue("setOnStart", command)
    /\ ret' = Undefined
    /\ UNCHANGED <<example, status, console, calls, context, item, manager, products>>
    /\ UNCHANGED heapVars

\* setOnFinish that assigns the other slot.
Invoker_setOnFinish_wrongSlot(command) ==
    /\ Running("command.abstract")
    /\ invoker # NoObject
    /\ invoker' = [invoker EXCEPT !.onStart = command]
    /\ Issue("setOnFinish", command)
    /\ ret' = Undefined
    /\ UNCHANGED <<example, status, console, calls, context, item, manager, products>>
    /\ UNCHANGED heapVars

Invoker_setOnFinish(command) ==
    /\ Running("command.abstract")
    /\ invoker # NoObject
    /\ invoker' = [invoker EXCEPT !.onFinish = command]
    /\ Issue("setOnFinish", command)
    /\ ret' = Undefined
    /\ UNCHANGED <<example, status, console, calls, context, item, manager, products>>
    /\ UNCHANGED heapVars

\* The method runs to its end or to the first throw; what was printed and
\* called before the throw stays.
Invoker_doSomethingImportant ==
    /\ Running("command.abstract")
    /\ invoker # NoObject
    /\ LET c1 == Invoker_isCommand(invoker.onStart)
           c2 == Invoker_isCommand(invoker.onFinish)
           l1 == << <<"Invoker: Does anybody want something done before I begin?">> >>
           s1 == IF c1.value THEN Command_execute(invoker.onStart) ELSE <<>>
           k1 == IF c1.value THEN <<CallRecord(invoker.onStart)>> ELSE <<>>
           l2 == << <<"Invoker: ...doing something really important...">>,
                    <<"Invoker: Does anybody want something done after I finish?">> >>
           s2 == IF c2.value THEN Command_execute(invoker.onFinish) ELSE <<>>
           k2 == IF c2.value THEN <<CallRecord(invoker.onFinish)>> ELSE <<>>
       IN IF c1.threw
          THEN /\ console' = console \o l1
               /\ calls' = calls
               /\ status' = "TypeError"
          ELSE IF c2.threw
          THEN /\ console' = console \o l1 \o s1 \o l2
               /\ calls' = calls \o k1
               /\ status' = "TypeError"
          ELSE /\ console' = console \o l1 \o s1 \o l2 \o s2
               /\ calls' = calls \o k1 \o k2
               /\ status' = status
    /\ Issue("doSomethingImportant", Undefined)
    /\ ret' = Undefined
    /\ UNCHANGED <<example, context, item, invoker, manager, products>>
    /\ UNCHANGED heapVars

\* -------------------------------------------------------- Command (concrete)
\* execute gets the reference to the manager's array in its parameter orders.
\* The result has the contents of that array after the call (array), the
\* value of the parameter at the end of the call (param), the line printed
\* and the value returned.
\* PlaceOrderCommand that skips an id the list already has.
PlaceOrderCommand_execute_dedup(c, orders) ==
    LET has == \E i \in 1..Len(orders) : orders[i].id = c.id
        new == IF has THEN orders ELSE Append(orders, [id |-> c.id])
    IN [array |-> new,
        param |-> new,
        line |-> <<"You have successfully ordered ", c.order, " (", c.id, ")">>,
        ret |-> Undefined]

PlaceOrderCommand_execute(c, orders) ==
    [array |-> Append(orders, [id |-> c.id]),
     param |-> Append(orders, [id |-> c.id]),
     line |-> <<"You have successfully ordered ", c.order, " (", c.id, ")">>,
     ret |-> Undefined]

\* filter builds a new array, and the assignment rebinds the parameter only.
CancelOrderCommand_execute(c, orders) ==
    [array |-> orders,
     param |-> SelectSeq(orders, LAMBDA order : order.id # c.id),
     line |-> <<"You have canceled your order ", c.id>>,
     ret |-> Undefined]

TrackOrderCommand_execute(c, orders) ==
    [array |-> orders,
     param |-> orders,
     line |-> <<"Your order ", c.id, " will arrive in 20 minutes.">>,
     ret |-> Undefined]

\* dynamic dispatch of the abstract Command.execute
OrderCommand_execute(c, orders) ==
    CASE c.cls = "PlaceOrderCommand" -> PlaceOrderCommand_execute(c, orders)
      [] c.cls = "CancelOrderCommand" -> CancelOrderCommand_execute(c, orders)
      [] c.cls = "TrackOrderCommand" -> TrackOrderCommand_execute(c, orders)

NewOrderManager ==
    /\ Running("command.concrete")
    /\ manager = NoObject
    /\ manager' = [cls |-> "OrderManager", orders |-> <<>>]
    /\ Issue("new OrderManager", Undefined)
    /\ ret' = Undefined
    /\ UNCHANGED <<example, status, console, calls, context, item, invoker, products>>
    /\ UNCHANGED heapVars

\* execute that puts the message in front of the earlier ones.
OrderManager_execute_prepend(command) ==
    /\ Running("command.concrete")
    /\ manager # NoObject
    /\ LET r == OrderCommand_execute(command, manager.orders)
       IN /\ manager' = [manager EXCEPT !.orders = r.array]
          /\ console' = <<r.line>> \o console
          /\ calls' = Append(calls, [target |-> command,
                                     method |-> "execute",
                                     args |-> <<ArrayValue(manager.orders)>>,
                                     ret |-> r.ret])
          /\ ret' = r.ret
    /\ Issue("execute", command)
    /\ UNCHANGED <<example, status, context, item, invoker, products>>
    /\ UNCHANGED heapVars

OrderManager_execute(command) ==
    /\ Running("command.concrete")
    /\ manager # NoObject
    /\ LET r == OrderCommand_execute(command, manager.orders)
       IN /\ manager' = [manager EXCEPT !.orders = r.array]
          /\ console' = Append(console, r.line)
          /\ calls' = Append(calls, [target |-> command,
                                     method |-> "execute",
                                     args |-> <<ArrayValue(manager.orders)>>,
                                     ret |-> r.ret])
          /\ ret' = r.ret
    /\ Issue("execute", command)
    /\ UNCHANGED <<example, status, context, item, invoker, products>>
    /\ UNCHANGED heapVars

\* ----------------------------------------------- Abstract Factory (abstract)
Factories == {[cls |-> "ConcreteFactory1"], [cls |-> "ConcreteFactory2"]}

ConcreteFactory1_createProductA == [cls |-> "ConcreteProductA1"]

ConcreteFactory1_createProductB == [cls |-> "ConcreteProductB1"]

\* ConcreteFactory2 instantiating the product A of the other variant.
ConcreteFactory2_createProductA_variant1 == [cls |-> "ConcreteProductA1"]

ConcreteFactory2_createProductA == [cls |-> "ConcreteProductA2"]

ConcreteFactory2_createProductB == [cls |-> "ConcreteProductB2"]

\* dynamic dispatch of AbstractFactory.createProductA / createProductB
createProductA(f) ==
    IF f.cls = "ConcreteFactory1" THEN ConcreteFactory1_createProductA
    ELSE ConcreteFactory2_createProductA

createProductB(f) ==
    IF f.cls = "ConcreteFactory1" THEN ConcreteFactory1_createProductB
    ELSE ConcreteFactory2_createProductB

\* dynamic dispatch of AbstractProductA.usefulFunctionA
usefulFunctionA(p) ==
    IF p.cls = "ConcreteProductA1" THEN "The result of the product A1."
    ELSE "The result of the product A2."

\* dynamic dispatch of AbstractProductB.usefulFunctionB
usefulFunctionB(p) ==
    IF p.cls = "ConcreteProductB1" THEN "The result of the product B1."
    ELSE "The result of the product B2."

ConcreteProductB1_anotherUsefulFunctionB(collaborator) ==
    LET res == usefulFunctionA(collaborator)
    IN <<"The result of the B1 collaborating with the (", res, ")">>

ConcreteProductB2_anotherUsefulFunctionB(collaborator) ==
    LET res == usefulFunctionA(collaborator)
    IN <<"The result of the B2 collaborating with the (", res, ")">>

\* dynamic dispatch of AbstractProductB.anotherUsefulFunctionB
anotherUsefulFunctionB(p, collaborator) ==
    IF p.cls = "ConcreteProductB1" THEN ConcreteProductB1_anotherUsefulFunctionB(collaborator)
    ELSE ConcreteProductB2_anotherUsefulFunctionB(collaborator)

StringValue(parts) == [cls |-> "string", parts |-> parts]

IsProductA(p) == p.cls \in {"ConcreteProductA1", "ConcreteProductA2"}

IsProductB(p) == p.cls \in {"ConcreteProductB1", "ConcreteProductB2"}

\* products holds every product created, with the factory that created it.
Factory_createProductA(f) ==
    /\ Running("abstractFactory.abstract")
    /\ products' = Append(products, [obj |-> createProductA(f), madeBy |-> f.cls])
    /\ Issue("createProductA", f)
    /\ ret' = createProductA(f)
    /\ UNCHANGED <<example, status, console, calls, context, item, invoker, manager>>
    /\ UNCHANGED heapVars

Factory_createProductB(f) ==
    /\ Running("abstractFactory.abstract")
    /\ products' = Append(products, [obj |-> createProductB(f), madeBy |-> f.cls])
    /\ Issue("createProductB", f)
    /\ ret' = createProductB(f)
    /\ UNCHANGED <<example, status, console, calls, context, item, invoker, manager>>
    /\ UNCHANGED heapVars

\* productB.anotherUsefulFunctionB(productA) on any two products created so
\* far: the parameter type admits a product A of either variant.
ProductB_anotherUsefulFunctionB(i, j) ==
    /\ Running("abstractFactory.abstract")
    /\ i \in 1..Len(products) /\ j \in 1..Len(products)
    /\ IsProductB(products[i].obj) /\ IsProductA(products[j].obj)
    /\ LET text == anotherUsefulFunctionB(products[i].obj, products[j].obj)
       IN /\ calls' = Append(calls, [target |-> products[i],
                                     method |-> "anotherUsefulFunctionB",
                                     args |-> <<products[j]>>,
                                     ret |-> StringValue(text)])
          /\ ret' = StringValue(text)
    /\ Issue("anotherUsefulFunctionB", Undefined)
    /\ UNCHANGED <<example, status, console, context, item, invoker, manager, products>>
    /\ UNCHANGED heapVars

clientCode(factory) ==
    /\ Running("abstractFactory.abstract")
    /\ LET productA == [obj |-> createProductA(factory), madeBy |-> factory.cls]
           productB == [obj |-> createProductB(factory), madeBy |-> factory.cls]
           text == anotherUsefulFunctionB(productB.obj, productA.obj)
       IN /\ products' = products \o <<productA, productB>>
          /\ console' = console \o << <<usefulFunctionB(productB.obj)>>, text >>
          /\ calls' = Append(calls, [target |-> productB,
                                     method |-> "anotherUsefulFunctionB",
                                     args |-> <<productA>>,
                                     ret |-> StringValue(text)])
    /\ Issue("clientCode", factory)
    /\ ret' = Undefined
    /\ UNCHANGED <<example, status, context, item, invoker, manager>>
    /\ UNCHANGED heapVars

\* ------------------------------------------------------------ specification
\* One demonstration function runs at a time; its classes are local to it.
Init ==
    /\ example \in Examples
    /\ status = "running"
    /\ console = <<>>
    /\ issued = <<>>
    /\ calls = <<>>
    /\ ret = Undefined
    /\ context = NoObject
    /\ item = NoObject
    /\ invoker = NoObject
    /\ manager = NoObject
    /\ products = <<>>
    /\ heap = <<>>
    /\ data = 0
    /\ result = 0
    /\ before = <<>>
    /\ applied = <<>>

Next ==
    \/ \E s \in Strategies : NewContext(s)
    \/ \E s \in Strategies : Context_setStrategy(s)
    \/ Context_doSomeBusinessLogic
    \/ \E price \in Prices, ps \in PaymentStrategies : NewItem(price, ps)
    \/ Item_buy
    \/ NewInvoker
    \/ \E c \in InvokerCommands : Invoker_setOnStart(c)
    \/ \E c \in InvokerCommands : Invoker_setOnFinish(c)
    \/ Invoker_doSomethingImportant
    \/ NewOrderManager
    \/ \E c \in OrderCommands : OrderManager_execute(c)
    \/ \E f \in Factories : Factory_createProductA(f)
    \/ \E f \in Factories : Factory_createProductB(f)
    \/ \E i \in 1..MaxOps, j \in 1..MaxOps : ProductB_anotherUsefulFunctionB(i, j)
    \/ \E f \in Factories : clientCode(f)

Spec == Init /\ [][Next]_vars

\* ------------------------------------------- doAlgorithm on a caller's array
\* The caller holds the reference data to an array of its own and applies a
\* strategy to it; before keeps the contents the array had before the call.
InitTransform ==
    /\ example = "doAlgorithm"
    /\ status = "running"
    /\ console = <<>>
    /\ issued = <<>>
    /\ calls = <<>>
    /\ ret = Undefined
    /\ context = NoObject
    /\ item = NoObject
    /\ invoker = NoObject
    /\ manager = NoObject
    /\ products = <<>>
    /\ \E input \in Inputs : heap = <<input>>
    /\ data = 1
    /\ result = 0
    /\ before = <<>>
    /\ applied = <<>>

Apply(s) ==
    /\ Len(applied) < MaxCalls
    /\ data \in 1..Len(heap)
    /\ LET r == doAlgorithm(s, heap, data)
       IN /\ heap' = r.heap
          /\ result' = r.ret
    /\ before' = heap[data]
    /\ applied' = Append(applied, s.cls)
    /\ UNCHANGED data
    /\ UNCHANGED progVars

ApplyA == Apply([cls |-> "ConcreteStrategyA"])

ApplyB == Apply([cls |-> "ConcreteStrategyB"])

NextTransform == ApplyA \/ ApplyB

SpecTransform == InitTransform /\ [][NextTransform]_vars

\* =================================================================== claims
\* An operation op has just been issued by this step.
IsStep(op) == Len(issued') = Len(issued) + 1 /\ Last(issued').op = op

\* The positions of h that hold an operation of ops.
Positions(h, ops) == {i \in 1..Len(h) : h[i].op \in ops}

\* The argument of the latest operation of ops in h (Undefined if none).
LastArg(h, ops) ==
    IF Positions(h, ops) = {} THEN Undefined
    ELSE h[CHOOSE i \in Positions(h, ops) : \A j \in Positions(h, ops) : j <= i].arg

StrategyA == [cls |-> "ConcreteStrategyA"]

StrategyB == [cls |-> "ConcreteStrategyB"]

AscendingLine == <<"a", ",", "b", ",", "c", ",", "d", ",", "e">>

DescendingLine == <<"e", ",", "d", ",", "c", ",", "b", ",", "a">>

\* C1: every doSomeBusinessLogic call makes its call into the strategy of the
\* latest bind (constructor or setStrategy) and prints that strategy's
\* result, however many calls follow the bind.
C1_RebindCorrectness ==
    [][IsStep("doSomeBusinessLogic") =>
         LET bound == LastArg(issued, {"new Context", "setStrategy"})
         IN /\ Len(calls') = Len(calls) + 1
            /\ SubSeq(calls', 1, Len(calls)) = calls
            /\ Last(calls').target = bound
            /\ Last(calls').method = "doAlgorithm"
            /\ Last(console') = IF bound = StrategyA THEN AscendingLine
                                ELSE DescendingLine]_vars

C1_Witness ==
    /\ Len(issued) >= 4
    /\ issued[1] = [op |-> "new Context", arg |-> StrategyA]
    /\ issued[2] = [op |-> "setStrategy", arg |-> StrategyB]
    /\ issued[3].op = "doSomeBusinessLogic"
    /\ issued[4].op = "doSomeBusinessLogic"
    /\ Len(calls) = 2
    /\ calls[1].target = StrategyB /\ calls[2].target = StrategyB
    /\ Last(console) = DescendingLine

\* C2: one operate call (doSomeBusinessLogic, buy, execute) makes exactly one
\* call into the bound implementation, with arguments fixed by the composer's
\* own state and not by the variant bound, and execute returns what the
\* command returned.
C2_VariantBlind ==
    [][/\ IsStep("doSomeBusinessLogic") =>
            /\ calls' = Append(calls, Last(calls'))
            /\ Last(calls').target = context.strategy
            /\ Last(calls').args = <<ArrayValue(Literal)>>
            /\ Len(console') = Len(console) + 2
       /\ IsStep("buy") =>
            /\ calls' = Append(calls, Last(calls'))
            /\ Last(calls').target = item.paymentStrategy
            /\ Last(calls').args = <<NumberValue(item.price)>>
            /\ Len(console') = Len(console) + 1
       /\ IsStep("execute") =>
            /\ calls' = Append(calls, Last(calls'))
            /\ Last(calls').target = Last(issued').arg
            /\ Last(calls').args = <<ArrayValue(manager.orders)>>
            /\ ret' = Last(calls').ret]_vars

C2_Witness ==
    \E i, j \in 1..Len(calls) :
        /\ calls[i].method = "doAlgorithm" /\ calls[j].method = "doAlgorithm"
        /\ calls[i].target = StrategyA /\ calls[j].target = StrategyB
        /\ calls[i].args = calls[j].args
        /\ calls[i].ret # calls[j].ret

VariantDigit(factoryCls) == IF factoryCls = "ConcreteFactory1" THEN "1" ELSE "2"

\* C3: a product B and a product A made by the same factory of variant V
\* collaborate without a throw, and the text names V in its B part and in
\* the embedded A part.
C3_PairCompatible ==
    \A k \in 1..Len(calls) :
        (calls[k].method = "anotherUsefulFunctionB"
           /\ calls[k].target.madeBy = calls[k].args[1].madeBy) =>
        LET v == VariantDigit(calls[k].target.madeBy)
        IN /\ status = "running"
           /\ calls[k].ret.parts =
                <<"The result of the B" \o v \o " collaborating with the (",
                  "The result of the product A" \o v \o ".",
                  ")">>

C3_Witness ==
    /\ Len(products) >= 4
    /\ \E k \in 1..Len(calls) :
         /\ calls[k].method = "anotherUsefulFunctionB"
         /\ calls[k].target.madeBy = "ConcreteFactory2"
         /\ calls[k].args[1].madeBy = "ConcreteFactory2"
    /\ \E i, j \in 1..Len(products) :
         i # j /\ products[i] = products[j] /\ IsProductA(products[i].obj)

\* The command a console line of the order example speaks of.
MessageKind(line) ==
    CASE line[1] = "You have successfully ordered " -> "PlaceOrderCommand"
      [] line[1] = "You have canceled your order " -> "CancelOrderCommand"
      [] line[1] = "Your order " -> "TrackOrderCommand"
      [] OTHER -> "unknown"

MessageId(line) ==
    IF MessageKind(line) = "PlaceOrderCommand" THEN line[4] ELSE line[2]

CommandsIssued == SelectSeq(issued, LAMBDA e : e.op = "execute")

\* C4: the console of the order example has one message per command issued,
\* in the order of issue: the i-th line is the message of the i-th command.
C4_MessagesInOrder ==
    example = "command.concrete" =>
        /\ Len(console) = Len(CommandsIssued)
        /\ \A i \in 1..Len(console) :
             /\ MessageKind(console[i]) = CommandsIssued[i].arg.cls
             /\ MessageId(console[i]) = CommandsIssued[i].arg.id

C4_Witness ==
    /\ example = "command.concrete"
    /\ Len(CommandsIssued) = 3
    /\ CommandsIssued[1].arg = [cls |-> "PlaceOrderCommand", order |-> "Pad Thai", id |-> "1234"]
    /\ CommandsIssued[2].arg = [cls |-> "TrackOrderCommand", id |-> "1234"]
    /\ CommandsIssued[3].arg = [cls |-> "CancelOrderCommand", id |-> "1234"]
    /\ console = << <<"You have successfully ordered ", "Pad Thai", " (", "1234", ")">>,
                    <<"Your order ", "1234", " will arrive in 20 minutes.">>,
                    <<"You have canceled your order ", "1234">> >>

\* C5: executing CancelOrderCommand(id) leaves the manager's list with no
\* entry of that id and with every entry of another id kept, in order.
C5_CancelRemoves ==
    [][(IsStep("execute") /\ Last(issued').arg.cls = "CancelOrderCommand") =>
         manager'.orders =
            SelectSeq(manager.orders, LAMBDA o : o.id # Last(issued').arg.id)]_vars

LastApplied == applied[Len(applied)]

\* C6 as stated: after the ascending sort the caller's array is as it was
\* before the call and the result is another array.
C6_SortDoesNotMutate ==
    (applied # <<>> /\ LastApplied = "ConcreteStrategyA") =>
        /\ heap[data] = before
        /\ result # data

Occurrences(s, c) == Cardinality({i \in 1..Len(s) : s[i] = c})

IsPermutation(s, t) ==
    Len(s) = Len(t) /\ \A c \in Alphabet : Occurrences(s, c) = Occurrences(t, c)

IsAscending(s) ==
    \A i \in 1..Len(s) : \A j \in 1..Len(s) : i < j => CodeUnit[s[i]] <= CodeUnit[s[j]]

\* C6 amended: the ascending sort works in place: the result is the caller's
\* own array, no array is allocated, and after the call that array holds the
\* elements it had before, in ascending order.
C6_SortInPlace ==
    (applied # <<>> /\ LastApplied = "ConcreteStrategyA") =>
        /\ result = data
        /\ Len(heap) = 1
        /\ IsPermutation(heap[data], before)
        /\ IsAscending(heap[data])

C6_Witness ==
    /\ applied = <<"ConcreteStrategyA">>
    /\ result = data
    /\ before = <<"c", "a", "b">>
    /\ heap[data] = <<"a", "b", "c">>

\* C7: ConcreteStrategyA returns the ascending permutation of its input and
\* ConcreteStrategyB the input with the order of the elements inverted; for
\* [a,b,c,d,e] these are [a,b,c,d,e] and [e,d,c,b,a].
C7_TransformResults ==
    applied # <<>> =>
        /\ LastApplied = "ConcreteStrategyA" =>
             /\ IsPermutation(heap[result], before)
             /\ IsAscending(heap[result])
             /\ before = Literal => heap[result] = <<"a", "b", "c", "d", "e">>
        /\ LastApplied = "ConcreteStrategyB" =>
             /\ Len(heap[result]) = Len(before)
             /\ \A i \in 1..Len(before) : heap[result][i] = before[Len(before) + 1 - i]
             /\ before = Literal => heap[result] = <<"e", "d", "c", "b", "a">>

C7_Witness ==
    /\ applied = <<"ConcreteStrategyB", "ConcreteStrategyA">>
    /\ before = <<"e", "d", "c", "b", "a">>
    /\ heap[result] = <<"a", "b", "c", "d", "e">>

NeverCalledBefore(i, op) == \A j \in 1..(i - 1) : issued[j].op # op

\* C8: doSomethingImportant on an Invoker whose setOnStart (or setOnFinish)
\* was never called ends in a TypeError at that slot, right after the
\* question printed for the slot, and the program does not go on.
C8_UnboundFailsLoudly ==
    \A i \in 1..Len(issued) :
        issued[i].op = "doSomethingImportant" =>
            /\ NeverCalledBefore(i, "setOnStart") =>
                 /\ status = "TypeError"
                 /\ i = Len(issued)
                 /\ Last(console) = <<"Invoker: Does anybody want something done before I begin?">>
            /\ (~NeverCalledBefore(i, "setOnStart") /\ NeverCalledBefore(i, "setOnFinish")) =>
                 /\ status = "TypeError"
                 /\ i = Len(issued)
                 /\ Last(console) = <<"Invoker: Does anybody want something done after I finish?">>

C8_Witness ==
    /\ status = "TypeError"
    /\ Last(issued).op = "doSomethingImportant"
    /\ invoker.onStart # Undefined
    /\ invoker.onFinish = Undefined
    /\ Len(calls) = 1

\* C9 as stated: every constructed composer holds a bound implementation.
C9_NeverUnbound ==
    /\ context # NoObject => context.strategy \in Strategies
    /\ item # NoObject => item.paymentStrategy \in PaymentStrategies
    /\ invoker # NoObject =>
         invoker.onStart \in InvokerCommands /\ invoker.onFinish \in InvokerCommands

\* C9 amended: a Context and an Item hold, from construction on, exactly the
\* implementation of their latest bind; a slot of an Invoker is undefined
\* from construction until its setter is first called, and from then on
\* holds exactly the command of the latest call of its setter.
C9_BindingInvariant ==
    /\ context # NoObject =>
         /\ context.strategy \in Strategies
         /\ context.strategy = LastArg(issued, {"new Context", "setStrategy"})
    /\ item # NoObject =>
         /\ item.paymentStrategy \in PaymentStrategies
         /\ item.paymentStrategy = LastArg(issued, {"new Item"})
    /\ invoker # NoObject =>
         /\ invoker.onStart = LastArg(issued, {"setOnStart"})
         /\ invoker.onFinish = LastArg(issued, {"setOnFinish"})
         /\ Positions(issued, {"setOnStart"}) # {} => invoker.onStart \in InvokerCommands
         /\ Positions(issued, {"setOnFinish"}) # {} => invoker.onFinish \in InvokerCommands

C9_Witness ==
    /\ invoker # NoObject
    /\ Cardinality(Positions(issued, {"setOnFinish"})) = 2
    /\ issued[Len(issued) - 1].op = "setOnFinish"
    /\ issued[Len(issued) - 1].arg # Last(issued).arg
    /\ invoker.onFinish = Last(issued).arg
    /\ invoker.onStart = Undefined

\* C10: PlaceOrderCommand appends one entry with its id at the end of the
\* manager's list, whether or not the id is there already, and leaves the
\* earlier entries as they are; TrackOrderCommand leaves the list unchanged.
C10_OrderListFrame ==
    [][IsStep("execute") =>
         LET c == Last(issued').arg
         IN /\ c.cls = "PlaceOrderCommand" =>
                 manager'.orders = Append(manager.orders, [id |-> c.id])
            /\ c.cls = "TrackOrderCommand" =>
                 manager'.orders = manager.orders]_vars

C10_Witness ==
    /\ manager # NoObject
    /\ manager.orders = << [id |-> "1234"], [id |-> "1234"] >>
    /\ Last(issued).op = "execute"
    /\ Last(issued).arg.cls = "TrackOrderCommand"

====
